---- MODULE Spec2Model ----
(***************************************************************************)
(* A model of voorhees.rs: the Lexer (a cursor over an immutable byte      *)
(* buffer) and the recursive-descent parser parse_ / parse built on it.    *)
(* Bytes are integers 0..255, slices and strings are sequences of bytes.   *)
(* The cursor pos is 0-based as in the source: the byte under the cursor   *)
(* is s[pos + 1].                                                          *)
(***************************************************************************)
EXTENDS Integers, Sequences, FiniteSets, TLC

VARIABLES
    s,       \* Lexer.s: the input bytes (borrowed, read-only)
    pos,     \* Lexer.pos: the cursor
    pc,      \* where the parse is: "value", "sep", "finish", "done"; "lexer" in SpecLexer
    stack,   \* the arr vectors of the active parse_ calls that are inside "[", outermost first
    val,     \* v of parse: the top-level value once parse_ has returned
    result,  \* what parse returned (or that it panicked); NoResult while running
    ntok,    \* number of Lexer::token calls made so far
    op,      \* SpecLexer: the last Lexer method called
    ret      \* SpecLexer: what that call returned

vars == <<s, pos, pc, stack, val, result, ntok, op, ret>>

----------------------------------------------------------------------------
(* Bytes the source names as character literals. *)

SPACE == 32
TAB == 9
CR == 13
LF == 10
LOWER_A == 97
LOWER_Z == 122
UPPER_A == 65
UPPER_Z == 90
UNDERSCORE == 95
DIGIT_0 == 48
DIGIT_9 == 57
LBRACKET == 91
RBRACKET == 93
COMMA == 44
COLON == 58
LBRACE == 123
RBRACE == 125

NULL_TOKEN == <<110, 117, 108, 108>>
TRUE_TOKEN == <<116, 114, 117, 101>>
FALSE_TOKEN == <<102, 97, 108, 115, 101>>
OPEN_BRACKET_TOKEN == <<LBRACKET>>
CLOSE_BRACKET_TOKEN == <<RBRACKET>>
COMMA_TOKEN == <<COMMA>>

(* The message literals of parse_ and parse, as their ASCII bytes. *)
MSG_EOD ==          \* "Unexpected end of document"
    <<85, 110, 101, 120, 112, 101, 99, 116, 101, 100, 32, 101, 110, 100, 32,
      111, 102, 32, 100, 111, 99, 117, 109, 101, 110, 116>>
MSG_UNKNOWN ==      \* "Unknown token '"
    <<85, 110, 107, 110, 111, 119, 110, 32, 116, 111, 107, 101, 110, 32, 39>>
MSG_EXPECTED ==     \* "Expected ',' or ']' but got '"
    <<69, 120, 112, 101, 99, 116, 101, 100, 32, 39, 44, 39, 32, 111, 114, 32,
      39, 93, 39, 32, 98, 117, 116, 32, 103, 111, 116, 32, 39>>
MSG_GOOP ==         \* "Extra goop at the end of the file: "
    <<69, 120, 116, 114, 97, 32, 103, 111, 111, 112, 32, 97, 116, 32, 116, 104,
      101, 32, 101, 110, 100, 32, 111, 102, 32, 116, 104, 101, 32, 102, 105,
      108, 101, 58, 32>>
MSG_QUOTE == <<39>> \* "'"

----------------------------------------------------------------------------
(* enum Value and the outcomes of parse. *)

Null == [tag |-> "Null", b |-> FALSE, items |-> <<>>]
Boolean(x) == [tag |-> "Boolean", b |-> x, items |-> <<>>]
Array(xs) == [tag |-> "Array", b |-> FALSE, items |-> xs]

NoValue == [tag |-> "None", b |-> FALSE, items |-> <<>>]

Ok(v) == [kind |-> "Ok", v |-> v, msg |-> <<>>]
Err(m) == [kind |-> "Err", v |-> NoValue, msg |-> m]
Panic == [kind |-> "Panic", v |-> NoValue, msg |-> <<>>]
NoResult == [kind |-> "None", v |-> NoValue, msg |-> <<>>]

----------------------------------------------------------------------------
(* std::str::from_utf8: whether a byte slice is well-formed UTF-8.         *)

Cont(b) == b >= 128 /\ b <= 191

RECURSIVE Utf8Valid(_)
Utf8Valid(bs) ==
    IF bs = <<>> THEN TRUE
    ELSE LET b1 == bs[1]
             n == Len(bs)
         IN  IF b1 <= 127 THEN Utf8Valid(Tail(bs))
             ELSE IF b1 >= 194 /\ b1 <= 223
                  THEN n >= 2 /\ Cont(bs[2]) /\ Utf8Valid(SubSeq(bs, 3, n))
             ELSE IF b1 >= 224 /\ b1 <= 239
                  THEN /\ n >= 3
                       /\ Cont(bs[2]) /\ Cont(bs[3])
                       /\ (b1 = 224 => bs[2] >= 160)
                       /\ (b1 = 237 => bs[2] <= 159)
                       /\ Utf8Valid(SubSeq(bs, 4, n))
             ELSE IF b1 >= 240 /\ b1 <= 244
                  THEN /\ n >= 4
                       /\ Cont(bs[2]) /\ Cont(bs[3]) /\ Cont(bs[4])
                       /\ (b1 = 240 => bs[2] >= 144)
                       /\ (b1 = 244 => bs[2] <= 143)
                       /\ Utf8Valid(SubSeq(bs, 5, n))
             ELSE FALSE

----------------------------------------------------------------------------
(* The Lexer. Every method takes the lexer's fields (s, pos); a method     *)
(* that moves the cursor returns the new cursor with its result.           *)

eof(str, p) == p >= Len(str)

\* the test for the end of the input is left out
advance_unchecked(str, p) == p + 1

advance(str, p) == IF ~eof(str, p) THEN p + 1 ELSE p

\* Option<u8>: <<>> is None, <<b>> is Some(b)
peek_byte(str, p) == IF eof(str, p) THEN <<>> ELSE <<str[p + 1]>>

take_byte(str, p) ==
    IF eof(str, p) THEN [ret |-> <<>>, pos |-> p]
    ELSE [ret |-> <<str[p + 1]>>, pos |-> advance(str, p)]

\* carriage return is forgotten
is_whitespace_nocr(ch) == ch = SPACE \/ ch = TAB \/ ch = LF

is_whitespace(ch) == ch = SPACE \/ ch = TAB \/ ch = CR \/ ch = LF

is_identifier_start(b) ==
    (b >= LOWER_A /\ b <= LOWER_Z) \/ (b >= UPPER_A /\ b <= UPPER_Z) \/ b = UNDERSCORE

is_identifier_char(b) == is_identifier_start(b) \/ (b >= DIGIT_0 /\ b <= DIGIT_9)

\* the closures and function items handed to take and take_while
Preds == {"is_whitespace", "is_identifier_start", "is_identifier_char"}

pred(name, ch) ==
    CASE name = "is_whitespace" -> is_whitespace(ch)
      [] name = "is_identifier_start" -> is_identifier_start(ch)
      [] name = "is_identifier_char" -> is_identifier_char(ch)

\* take only looks: it returns the byte under the cursor when pred accepts
\* it and never moves the cursor
take(str, p, name) ==
    LET ch == peek_byte(str, p)
    IN  IF ch # <<>> /\ pred(name, ch[1]) THEN ch ELSE <<>>

RECURSIVE take_while_end(_, _, _)
take_while_end(str, p, name) ==
    LET ch == peek_byte(str, p)
    IN  IF ch # <<>> /\ pred(name, ch[1])
        THEN take_while_end(str, advance(str, p), name)
        ELSE p

take_while(str, p, name) ==
    LET e == take_while_end(str, p, name)
    IN  [ret |-> SubSeq(str, p + 1, e), pos |-> e]

skip_whitespace(str, p) == take_while(str, p, "is_whitespace").pos

\* the closure next_char of token
next_char(str, p) ==
    LET e == advance(str, p)
    IN  [ret |-> SubSeq(str, p + 1, e), pos |-> e]

\* an identifier run is cut at the first byte that cannot start one
token_startrun(str, p) ==
    LET p1 == skip_whitespace(str, p)
    IN  IF eof(str, p1) THEN [ret |-> <<>>, pos |-> p1]
        ELSE LET byte == peek_byte(str, p1)[1]
                 r == IF byte \in {LBRACKET, RBRACKET, COMMA, COLON, LBRACE, RBRACE}
                      THEN next_char(str, p1)
                      ELSE IF is_identifier_start(byte)
                           THEN take_while(str, p1, "is_identifier_start")
                           ELSE next_char(str, p1)
             IN  [ret |-> r.ret, pos |-> skip_whitespace(str, r.pos)]

token(str, p) ==
    LET p1 == skip_whitespace(str, p)
    IN  IF eof(str, p1) THEN [ret |-> <<>>, pos |-> p1]
        ELSE LET byte == peek_byte(str, p1)[1]
                 r == IF byte \in {LBRACKET, RBRACKET, COMMA, COLON, LBRACE, RBRACE}
                      THEN next_char(str, p1)
                      ELSE IF is_identifier_start(byte)
                           THEN take_while(str, p1, "is_identifier_char")
                           ELSE next_char(str, p1)
             IN  [ret |-> r.ret, pos |-> skip_whitespace(str, r.pos)]

\* the whole buffer instead of what is left of it
rest_whole(str, p) == str

rest(str, p) == SubSeq(str, p + 1, Len(str))

----------------------------------------------------------------------------
(* The parser. parse_ is recursive and loops; its activation records are   *)
(* kept in stack (one arr per call that is inside "["), and one step is    *)
(* the code between two reads of the token stream. A step maps the parse   *)
(* state st = [pos, pc, stack, val, result, ntok] to the next one.         *)

NewParse == [pos |-> 0, pc |-> "value", stack |-> <<>>, val |-> NoValue,
             result |-> NoResult, ntok |-> 0]

\* the element is put in front of the vector instead of pushed at its end
Deliver_front(st, v) ==
    IF st.stack = <<>>
    THEN [st EXCEPT !.pc = "finish", !.val = v]
    ELSE [st EXCEPT !.pc = "sep", !.stack[Len(st.stack)] = <<v>> \o @]

\* parse_ returns Ok(v): to parse (line 128) when it is the outermost call,
\* else to the loop of the enclosing call, which pushes it (lines 166-167)
Deliver(st, v) ==
    IF st.stack = <<>>
    THEN [st EXCEPT !.pc = "finish", !.val = v]
    ELSE [st EXCEPT !.pc = "sep", !.stack[Len(st.stack)] = Append(@, v)]

\* the error is recorded but the loop goes on reading
Fail_goes_on(st, r) == [st EXCEPT !.result = r]

\* an Err leaves through every `?` up to the caller of parse; a panic
\* unwinds the same way. The arr vectors of the calls are dropped.
Fail(st, r) == [st EXCEPT !.pc = "done", !.result = r, !.stack = <<>>]

\* the error of the array loop is reported for a token that is no value
value_step_expected(st, tok) ==
    IF ~Utf8Valid(tok) THEN Fail(st, Panic)
    ELSE IF Len(tok) = 0 THEN Fail(st, Err(MSG_EOD))
    ELSE IF tok = NULL_TOKEN THEN Deliver(st, Null)
    ELSE IF tok = TRUE_TOKEN THEN Deliver(st, Boolean(TRUE))
    ELSE IF tok = FALSE_TOKEN THEN Deliver(st, Boolean(FALSE))
    ELSE IF tok = OPEN_BRACKET_TOKEN
         THEN [st EXCEPT !.pc = "value", !.stack = Append(@, <<>>)]
    ELSE Fail(st, Err(MSG_EXPECTED \o tok \o MSG_QUOTE))

\* what parse_ does with the token it read where a value is expected
value_step(st, tok) ==
    IF ~Utf8Valid(tok) THEN Fail(st, Panic)            \* println!: from_utf8(token).unwrap()
    ELSE IF Len(tok) = 0 THEN Fail(st, Err(MSG_EOD))
    ELSE IF tok = NULL_TOKEN THEN Deliver(st, Null)
    ELSE IF tok = TRUE_TOKEN THEN Deliver(st, Boolean(TRUE))
    ELSE IF tok = FALSE_TOKEN THEN Deliver(st, Boolean(FALSE))
    ELSE IF tok = OPEN_BRACKET_TOKEN
         THEN [st EXCEPT !.pc = "value", !.stack = Append(@, <<>>)]
    ELSE Fail(st, Err(MSG_UNKNOWN \o tok \o MSG_QUOTE))

\* the test for the empty token is left out of the array loop
sep_step_noeof(st, next) ==
    IF next = CLOSE_BRACKET_TOKEN
    THEN Deliver([st EXCEPT !.stack = SubSeq(@, 1, Len(@) - 1)],
                 Array(st.stack[Len(st.stack)]))
    ELSE IF next = COMMA_TOKEN THEN [st EXCEPT !.pc = "value"]
    ELSE IF ~Utf8Valid(next) THEN Fail(st, Panic)
    ELSE Fail(st, Err(MSG_EXPECTED \o next \o MSG_QUOTE))

\* what the array loop does with the token it read after an element
sep_step(st, next) ==
    IF next = CLOSE_BRACKET_TOKEN
    THEN Deliver([st EXCEPT !.stack = SubSeq(@, 1, Len(@) - 1)],
                 Array(st.stack[Len(st.stack)]))
    ELSE IF next = COMMA_TOKEN THEN [st EXCEPT !.pc = "value"]
    ELSE IF Len(next) = 0 THEN Fail(st, Err(MSG_EOD))
    ELSE IF ~Utf8Valid(next) THEN Fail(st, Panic)      \* from_utf8(next).unwrap()
    ELSE Fail(st, Err(MSG_EXPECTED \o next \o MSG_QUOTE))

\* parse_, from its entry to the next read of a token or its return
parse_value(str, st) ==
    LET t == token(str, st.pos)
    IN  value_step([st EXCEPT !.pos = t.pos, !.ntok = @ + 1], t.ret)

\* the quote that closes the token text is left out of the message
array_next_unquoted(str, st) ==
    LET t == token(str, st.pos)
        st1 == sep_step([st EXCEPT !.pos = t.pos, !.ntok = @ + 1], t.ret)
    IN  IF st1.result.kind = "Err" /\ st1.result.msg # MSG_EOD
        THEN [st1 EXCEPT !.result = Err(MSG_EXPECTED \o t.ret)]
        ELSE st1

\* parse_, from the token read after an element on
array_next(str, st) ==
    LET t == token(str, st.pos)
    IN  sep_step([st EXCEPT !.pos = t.pos, !.ntok = @ + 1], t.ret)

\* parse, after parse_ has returned Ok(v)
parse_finish(str, st) ==
    LET p == skip_whitespace(str, st.pos)
        st1 == [st EXCEPT !.pos = p]
    IN  IF ~eof(str, p)
        THEN IF Utf8Valid(rest(str, p))
             THEN Fail(st1, Err(MSG_GOOP \o rest(str, p)))
             ELSE Fail(st1, Panic)                     \* from_utf8(lexer.rest()).unwrap()
        ELSE [st1 EXCEPT !.pc = "done", !.result = Ok(st.val)]

step(str, st) ==
    CASE st.pc = "value" -> parse_value(str, st)
      [] st.pc = "sep" -> array_next(str, st)
      [] st.pc = "finish" -> parse_finish(str, st)

RECURSIVE run(_, _)
run(str, st) == IF st.pc = "done" THEN st ELSE run(str, step(str, st))

\* pub fn parse, as the function of its argument
parse(str) == run(str, NewParse).result

----------------------------------------------------------------------------
(* The inputs of parse: every concatenation of at most MaxChunks pieces   *)
(* of Chunks (the tokens of the grammar, white space and text no rule      *)
(* accepts), and every concatenation of at most MaxCore tokens of the      *)
(* grammar. Each piece is whole characters, so an input is a str           *)
(* (well-formed UTF-8).                                                    *)

MaxChunks == 4
MaxCore == 5

CoreChunks ==
    { NULL_TOKEN, TRUE_TOKEN, FALSE_TOKEN, <<LBRACKET>>, <<RBRACKET>>, <<COMMA>> }

Chunks ==
    CoreChunks \cup
    { <<SPACE>>,
      <<101, 120, 116, 114, 97>>,   \* "extra"
      <<49>>,                       \* "1"
      <<195, 169>> }                \* U+00E9, two bytes

\* the concatenations of exactly n of the pieces
RECURSIVE Concats(_, _)
Concats(pieces, n) ==
    IF n = 0 THEN {<<>>}
    ELSE {x \o c : x \in Concats(pieces, n - 1), c \in pieces}

IsInput(str) ==
    \/ \E n \in 0..MaxChunks : str \in Concats(Chunks, n)
    \/ \E n \in 0..MaxCore : str \in Concats(CoreChunks, n)

St == [pos |-> pos, pc |-> pc, stack |-> stack, val |-> val,
       result |-> result, ntok |-> ntok]

Becomes(st) ==
    /\ pos' = st.pos
    /\ pc' = st.pc
    /\ stack' = st.stack
    /\ val' = st.val
    /\ result' = st.result
    /\ ntok' = st.ntok
    /\ UNCHANGED <<s, op, ret>>

Init ==
    /\ IsInput(s)
    /\ pos = NewParse.pos
    /\ pc = NewParse.pc
    /\ stack = NewParse.stack
    /\ val = NewParse.val
    /\ result = NewParse.result
    /\ ntok = NewParse.ntok
    /\ op = "new"
    /\ ret = <<>>

ParseValue == pc = "value" /\ Becomes(parse_value(s, St))

ArrayNext == pc = "sep" /\ Becomes(array_next(s, St))

ParseFinish == pc = "finish" /\ Becomes(parse_finish(s, St))

Next == ParseValue \/ ArrayNext \/ ParseFinish

Spec == Init /\ [][Next]_vars

----------------------------------------------------------------------------
(* The Lexer on its own: any sequence of calls of its methods on a lexer   *)
(* freshly made by Lexer::new over any buffer. eof is the guard of every   *)
(* other method and changes nothing, so it is no action of its own.        *)

MaxLexChunks == 3

LexChunks ==
    { <<LBRACKET>>, <<COLON>>,
      <<SPACE>>, <<TAB>>,
      <<LOWER_A>>, <<UNDERSCORE>>,
      <<55>>,           \* "7"
      <<12>>,           \* form feed
      <<195, 169>> }    \* U+00E9, two bytes

IsLexInput(str) == \E n \in 0..MaxLexChunks : str \in Concats(LexChunks, n)

InitLexer ==
    /\ IsLexInput(s)
    /\ pos = 0
    /\ op = "new"
    /\ ret = <<>>
    /\ pc = "lexer"
    /\ stack = <<>>
    /\ val = NoValue
    /\ result = NoResult
    /\ ntok = 0

Called(name, r, p) ==
    /\ pc = "lexer"
    /\ op' = name
    /\ ret' = r
    /\ pos' = p
    /\ UNCHANGED <<s, pc, stack, val, result, ntok>>

Advance == Called("advance", <<>>, advance(s, pos))

PeekByte == Called("peek_byte", peek_byte(s, pos), pos)

TakeByte == LET r == take_byte(s, pos) IN Called("take_byte", r.ret, r.pos)

Take == \E name \in Preds : Called("take", take(s, pos, name), pos)

TakeWhile ==
    \E name \in Preds :
        LET r == take_while(s, pos, name) IN Called("take_while", r.ret, r.pos)

SkipWhitespace == Called("skip_whitespace", <<>>, skip_whitespace(s, pos))

Token == LET r == token(s, pos) IN Called("token", r.ret, r.pos)

Rest == Called("rest", rest(s, pos), pos)

NextLexer ==
    \/ Advance
    \/ PeekByte
    \/ TakeByte
    \/ Take
    \/ TakeWhile
    \/ SkipWhitespace
    \/ Token
    \/ Rest

SpecLexer == InitLexer /\ [][NextLexer]_vars

----------------------------------------------------------------------------
(* What the properties below speak of, stated on the bytes of the input    *)
(* and not through the lexer.                                              *)

WhiteBytes == {32, 9, 13, 10}           \* space, tab, carriage return, line feed
PunctBytes == {91, 93, 123, 125, 44, 58} \* [ ] { } , :
Letter(b) == (b >= 65 /\ b <= 90) \/ (b >= 97 /\ b <= 122)
Digit(b) == b >= 48 /\ b <= 57
WordByte(b) == Letter(b) \/ Digit(b) \/ b = 95

\* indices (1-based) of the bytes at or after cursor p that are not white space
Black(str, p) == {i \in (p + 1)..Len(str) : str[i] \notin WhiteBytes}

Least(S) == CHOOSE i \in S : \A j \in S : i <= j
Greatest(S) == CHOOSE i \in S : \A j \in S : i >= j

OnlyWhite(str, p) == Black(str, p) = {}

\* the input from its first non-white byte at or after cursor p to its end
Leftover(str, p) == SubSeq(str, Least(Black(str, p)), Len(str))

RECURSIVE Strip(_)
Strip(bs) ==
    IF bs = <<>> THEN <<>>
    ELSE IF Head(bs) \in WhiteBytes THEN Strip(Tail(bs))
    ELSE <<Head(bs)>> \o Strip(Tail(bs))

\* the last non-white byte before cursor p, 0 when there is none
PrevBlack(str, p) ==
    LET B == {i \in 1..p : str[i] \notin WhiteBytes}
    IN  IF B = {} THEN 0 ELSE str[Greatest(B)]

\* the first non-white byte at or after cursor p, 0 when there is none
NextBlack(str, p) ==
    IF OnlyWhite(str, p) THEN 0 ELSE str[Least(Black(str, p))]

----------------------------------------------------------------------------
(* The grammar  value := "null" | "true" | "false" | array,                *)
(*              array := "[" value ("," value)* "]"                        *)
(* as the set of its derivation trees and the terminals each one yields.   *)

RECURSIVE Terminals(_), JoinTerminals(_)
Terminals(v) ==
    CASE v.tag = "Null" -> <<NULL_TOKEN>>
      [] v.tag = "Boolean" -> IF v.b THEN <<TRUE_TOKEN>> ELSE <<FALSE_TOKEN>>
      [] v.tag = "Array" -> <<(<<91>>)>> \o JoinTerminals(v.items) \o <<(<<93>>)>>
JoinTerminals(vs) ==
    IF Len(vs) = 1 THEN Terminals(vs[1])
    ELSE Terminals(vs[1]) \o <<(<<44>>)>> \o JoinTerminals(Tail(vs))

\* the trees that yield at most n terminals, and the non-empty element
\* lists that yield at most n terminals, separating commas included
RECURSIVE Trees(_), Elements(_)
Trees(n) ==
    IF n < 1 THEN {}
    ELSE {Null, Boolean(TRUE), Boolean(FALSE)} \cup {Array(xs) : xs \in Elements(n - 2)}
Elements(n) ==
    IF n < 1 THEN {}
    ELSE {<<v>> : v \in Trees(n)} \cup
         UNION {{<<v>> \o more : more \in Elements(n - 1 - Len(Terminals(v)))} :
                v \in Trees(n - 2)}

\* no input holds more terminals than pieces
MaxTerminals == IF MaxChunks > MaxCore THEN MaxChunks ELSE MaxCore
GrammarTrees == Trees(MaxTerminals)

\* text is the terminals terms in order, with white space allowed before,
\* between and after them
RECURSIVE Spells(_, _)
Spells(text, terms) ==
    LET first == IF OnlyWhite(text, 0) THEN Len(text) + 1 ELSE Least(Black(text, 0))
        body == SubSeq(text, first, Len(text))
    IN  IF terms = <<>> THEN body = <<>>
        ELSE LET t == Head(terms)
             IN  /\ Len(body) >= Len(t)
                 /\ SubSeq(body, 1, Len(t)) = t
                 /\ Spells(SubSeq(body, Len(t) + 1, Len(body)), Tail(terms))

Derivations(text) == {v \in GrammarTrees : Spells(text, Terminals(v))}

----------------------------------------------------------------------------
\* C1: parse returns Ok(v) exactly when the input, white space allowed
\* around its tokens, is derivable from the grammar, and v is then the tree
\* of that derivation: elements in input order, nested as in the input.
C1_ParseIsGrammar ==
    pc = "done" =>
        LET D == Derivations(s)
        IN  /\ (result.kind = "Ok") <=> (D # {})
            /\ (result.kind = "Ok") => (D = {result.v})

\* "[true,null]" has been parsed into an array that keeps the order
C1_Witness ==
    /\ pc = "done"
    /\ s = <<91>> \o TRUE_TOKEN \o <<44>> \o NULL_TOKEN \o <<93>>
    /\ result = Ok(Array(<<Boolean(TRUE), Null>>))

\* C2: parse is total: it ends with a Value or a ParseError on every input,
\* also on bytes the lexer does not recognise; it never panics.
C2_ParseIsTotal == pc = "done" => result.kind \in {"Ok", "Err"}

\* C3: empty arrays and trailing commas are rejected: when the parse has
\* come, without error, to a "[" or "," that is followed (white space
\* aside) by "]", it fails with the unknown-token error naming "]"; and
\* parse("[]") and parse("[true,]") return no Value.
C3_ClosingBracketIsNoValue ==
    /\ [][ (/\ pc = "value"
            /\ PrevBlack(s, pos) \in {91, 44}
            /\ NextBlack(s, pos) = 93)
           => (pc' = "done" /\ result' = Err(MSG_UNKNOWN \o <<93>> \o MSG_QUOTE)) ]_vars
    /\ [](pc = "done" /\ s \in { <<91, 93>>, <<91>> \o TRUE_TOKEN \o <<44, 93>> }
            => result.kind = "Err")

\* parse("[true,]") has failed on the "]" after the comma
C3_Witness ==
    /\ pc = "done"
    /\ s = <<91>> \o TRUE_TOKEN \o <<44, 93>>
    /\ result = Err(MSG_UNKNOWN \o <<93>> \o MSG_QUOTE)

\* C4: once the top-level value is parsed, parse returns it only if nothing
\* but white space remains; otherwise it fails with the trailing-content
\* error, whose leftover text is the input from the first non-white byte
\* after the value to the end, and the value is not returned.
C4_TrailingContent ==
    [][ pc = "finish" =>
          /\ pc' = "done"
          /\ IF OnlyWhite(s, pos)
             THEN result' = Ok(val)
             ELSE result' = Err(MSG_GOOP \o Leftover(s, pos)) ]_vars

\* parse("null extra") has failed with the leftover text "extra"
C4_Witness ==
    /\ pc = "done"
    /\ s = NULL_TOKEN \o <<32, 101, 120, 116, 114, 97>>
    /\ result = Err(MSG_GOOP \o <<101, 120, 116, 114, 97>>)

\* C5: whenever a token is required (a value, or a separator or close after
\* an element) and only white space or nothing remains, parse fails with
\* the unexpected-end-of-document error and no other.
C5_EndOfDocument ==
    [][ (pc \in {"value", "sep"} /\ OnlyWhite(s, pos))
        => (pc' = "done" /\ result' = Err(MSG_EOD)) ]_vars

\* the input "[null" has ended inside the array, after an element, and
\* "[null, " after a comma
C5_Witness ==
    /\ pc = "done"
    /\ s \in { <<91>> \o NULL_TOKEN, <<91>> \o NULL_TOKEN \o <<44, 32>> }
    /\ result = Err(MSG_EOD)

\* the places of an input where a byte can be put without splitting a run
\* of letters, digits and underscores: i bytes of the input come before it
Boundaries(str) ==
    {i \in 0..Len(str) :
        ~(i >= 1 /\ i < Len(str) /\ WordByte(str[i]) /\ WordByte(str[i + 1]))}

Insert(str, i, b) == SubSeq(str, 1, i) \o <<b>> \o SubSeq(str, i + 1, Len(str))
Delete(str, i) == SubSeq(str, 1, i - 1) \o SubSeq(str, i + 1, Len(str))

\* C6: white space around tokens does not matter: an input that parses to v
\* still parses to v after a space, tab, carriage return or line feed is
\* inserted before, between or after its tokens, or one is deleted; so
\* parse(" [ true , false ] ") = parse("[true,false]"). No other byte acts
\* as white space: a form feed or vertical tab put there makes parse fail.
C6_WhitespaceInsensitive ==
    (pc = "done" /\ result.kind = "Ok") =>
        /\ \A i \in Boundaries(s) : \A w \in WhiteBytes :
               parse(Insert(s, i, w)) = result
        /\ \A i \in 1..Len(s) :
               s[i] \in WhiteBytes => parse(Delete(s, i)) = result
        /\ \A i \in Boundaries(s) : \A b \in {11, 12} :
               parse(Insert(s, i, b)).kind # "Ok"
        /\ parse(<<32, 91, 32>> \o TRUE_TOKEN \o <<32, 44, 32>> \o FALSE_TOKEN \o <<32, 93, 32>>)
             = parse(<<91>> \o TRUE_TOKEN \o <<44>> \o FALSE_TOKEN \o <<93>>)

\* "[ null]", an array with white space inside, has been parsed
C6_Witness ==
    /\ pc = "done"
    /\ s = <<91, 32>> \o NULL_TOKEN \o <<93>>
    /\ result = Ok(Array(<<Null>>))

\* the message texts as the specification words them
SPEC_EOD ==         \* "unexpected end of document"
    <<117, 110, 101, 120, 112, 101, 99, 116, 101, 100, 32, 101, 110, 100, 32,
      111, 102, 32, 100, 111, 99, 117, 109, 101, 110, 116>>
SPEC_UNKNOWN ==     \* "unknown token '"
    <<117, 110, 107, 110, 111, 119, 110, 32, 116, 111, 107, 101, 110, 32, 39>>
SPEC_EXPECTED ==    \* "expected ',' or ']' but got '"
    <<101, 120, 112, 101, 99, 116, 101, 100, 32, 39, 44, 39, 32, 111, 114, 32,
      39, 93, 39, 32, 98, 117, 116, 32, 103, 111, 116, 32, 39>>
SPEC_GOOP ==        \* "extra goop at the end of the file: "
    <<101, 120, 116, 114, 97, 32, 103, 111, 111, 112, 32, 97, 116, 32, 116, 104,
      101, 32, 101, 110, 100, 32, 111, 102, 32, 116, 104, 101, 32, 102, 105,
      108, 101, 58, 32>>

\* a text with its first letter in upper case
Capitalised(m) == <<m[1] - 32>> \o Tail(m)

\* a step that ends the parse in a ParseError gives it the message of its
\* case, built from the texts eod, unknown, expected and goop
MessagesAre(eod, unknown, expected, goop) ==
    (pc' = "done" /\ result'.kind = "Err") =>
        LET t == token(s, pos).ret
        IN  CASE pc = "value" ->
                   IF t = <<>> THEN result'.msg = eod
                   ELSE /\ t \notin {NULL_TOKEN, TRUE_TOKEN, FALSE_TOKEN, <<91>>}
                        /\ result'.msg = unknown \o t \o <<39>>
              [] pc = "sep" ->
                   IF t = <<>> THEN result'.msg = eod
                   ELSE /\ t \notin {<<44>>, <<93>>}
                        /\ result'.msg = expected \o t \o <<39>>
              [] pc = "finish" -> result'.msg = goop \o Leftover(s, pos)
              [] OTHER -> FALSE

\* C7, as claimed: the message of a ParseError is exactly the text the
\* specification gives for its case: "unexpected end of document",
\* "unknown token '<token>'", "expected ',' or ']' but got '<token>'",
\* "extra goop at the end of the file: <remaining text>".
C7_MessagesAsSpecified ==
    [][MessagesAre(SPEC_EOD, SPEC_UNKNOWN, SPEC_EXPECTED, SPEC_GOOP)]_vars

\* C7, amended: the message of a ParseError is the text the specification
\* gives for its case with its first letter in upper case ("Unexpected end
\* of document", "Unknown token '<token>'", "Expected ',' or ']' but got
\* '<token>'", "Extra goop at the end of the file: <remaining text>").
C7_MessagesCapitalised ==
    [][MessagesAre(Capitalised(SPEC_EOD), Capitalised(SPEC_UNKNOWN),
                   Capitalised(SPEC_EXPECTED), Capitalised(SPEC_GOOP))]_vars

\* "[null extra" has failed in the array loop on the token "extra"
C7_Witness ==
    /\ pc = "done"
    /\ s = <<91>> \o NULL_TOKEN \o <<32, 101, 120, 116, 114, 97>>
    /\ result.kind = "Err"
    /\ result.msg = Capitalised(SPEC_EXPECTED) \o <<101, 120, 116, 114, 97, 39>>

\* C8: the cursor of the lexer stays within 0..length of the input through
\* any sequence of calls of advance, peek_byte, take_byte, take, take_while,
\* skip_whitespace, token and rest; no call moves it back; advance and
\* take_byte at the end of the input leave it where it is; the input is
\* never changed.
C8_CursorInvariant ==
    /\ [](pos >= 0 /\ pos <= Len(s))
    /\ [][ /\ pos' >= pos
           /\ s' = s
           /\ (op' \in {"advance", "take_byte"} /\ pos = Len(s)) => pos' = pos ]_vars

\* take_byte has been called at the end of a non-empty input (it returned
\* None) and the cursor is still at the end
C8_Witness ==
    /\ op = "take_byte"
    /\ ret = <<>>
    /\ Len(s) > 0
    /\ pos = Len(s)

\* the longest run of letters, digits and underscores of str that starts
\* at index i
WordAt(str, i) ==
    LET ends == {j \in i..Len(str) : \A k \in i..j : WordByte(str[k])}
    IN  SubSeq(str, i, Greatest(ends))

\* C9: a call of token returns the slice picked by the first non-white byte
\* at or after the cursor: nothing iff there is none; that byte alone if it
\* is one of [ ] { } , : ; the longest run of letters, digits and
\* underscores from it if it is a letter or underscore; that byte alone
\* otherwise. The token holds no white byte, the cursor ends at the end of
\* the input or on a non-white byte, and the token is what the call
\* consumed with its white space removed.
C9_TokenContract ==
    [][ op' = "token" =>
          /\ IF OnlyWhite(s, pos) THEN ret' = <<>>
             ELSE LET i == Least(Black(s, pos))
                      b == s[i]
                  IN  /\ ret' # <<>>
                      /\ IF b \in PunctBytes THEN ret' = <<b>>
                         ELSE IF Letter(b) \/ b = 95 THEN ret' = WordAt(s, i)
                         ELSE ret' = <<b>>
          /\ \A k \in 1..Len(ret') : ret'[k] \notin WhiteBytes
          /\ (pos' = Len(s) \/ s[pos' + 1] \notin WhiteBytes)
          /\ ret' = Strip(SubSeq(s, pos + 1, pos')) ]_vars

\* token has returned "a7", a letter and a digit, as one token
C9_Witness ==
    /\ op = "token"
    /\ ret = <<97, 55>>

\* the number of "[" bytes among the first p bytes of str
Opened(str, p) == Cardinality({i \in 1..p : str[i] = 91})

\* C10: parse terminates in one forward pass: until it has returned it is
\* at one of its three steps, which it can always take, every step but the final test for trailing
\* content reads one token, a call of token that returns a token moves the
\* cursor forward by at least one byte, one that returns the empty token
\* makes the parse fail at once, nothing is read after the first error, at
\* most length + 1 calls of token are made, and the recursion is never
\* deeper than the number of "[" read.
C10_Terminates ==
    /\ [](pc \in {"value", "sep", "finish", "done"})
    /\ [](ntok <= Len(s) + 1)
    /\ [](Len(stack) <= Opened(s, pos))
    /\ [][ /\ pc # "done"
           /\ pc # "finish" => ntok' = ntok + 1
           /\ (ntok' # ntok /\ ~OnlyWhite(s, pos)) => pos' >= pos + 1
           /\ (ntok' # ntok /\ OnlyWhite(s, pos)) => (pc' = "done" /\ result'.kind = "Err")
           /\ result'.kind \in {"Err", "Panic"} => pc' = "done" ]_vars

\* "[[null]]" has been parsed: two calls of parse_ nested in the first,
\* seven tokens read in eleven bytes
C10_Witness ==
    /\ pc = "done"
    /\ s = <<91, 91>> \o NULL_TOKEN \o <<93, 93>>
    /\ result = Ok(Array(<<Array(<<Null>>)>>))
    /\ ntok = 5

====
